---------------------------- MODULE Spec2Model ----------------------------
(***************************************************************************)
(* Model of src/lambda_function.py: the UIT, Alwar monitor.                *)
(*                                                                         *)
(* One invocation of lambda_handler is a walk of the program counter pc    *)
(* through the plots pipeline (lines 432-471) and the newsletter pipeline  *)
(* (lines 474-492) to the return at 494-502.  Invocations follow each      *)
(* other (Start after the return), sharing only the S3 store.  Every network*)
(* call (page fetch, S3 get/put, Telegram post) either returns or raises;  *)
(* which of the two is chosen nondeterministically.                        *)
(*                                                                         *)
(* A record is modelled by its identity: [id |-> i], where NoId stands for *)
(* a record for which x.get("id") is falsy (key missing or empty).         *)
(*                                                                         *)
(* Spec and FairSpec follow one invocation after another.  FunctionSpec    *)
(* applies the parsing functions (extract_uit_alwar_link,                  *)
(* fetch_plot_details, the row identity of fetch_newsletters) to the pages *)
(* of a bounded set.  OverlapSpec runs two invocations that may overlap.   *)
(***************************************************************************)
EXTENDS Integers, Sequences, FiniteSets, TLC

\* ------------------------------------------------------------------ bounds
\* Longest record sequence one extraction yields.
MaxLen == 2
\* Most scheme rows the scheme-list page holds.
MaxSchemes == 2
\* Most rows of the summary table.
MaxRows == 2
\* Most <li> entries of a scheme page.
MaxLis == 3
\* Longest listing of an invocation that may overlap another.
MaxListed == 2

\* TELEGRAM_MAX_MESSAGES (line 63), as set in the environment of the
\* modelled deployment.
TELEGRAM_MAX_MESSAGES == 1

\* ------------------------------------------------------------------ values
NoId == ""
PlotIds == {"P1", "P2"}
NewsIds == {"N1"}
OBJECT_KEY == "plots"
OBJECT_KEY_NEWS == "news"
Keys == {OBJECT_KEY, OBJECT_KEY_NEWS}
\* The value of a key that does not exist in the bucket.
NoSuchKey == [exists |-> FALSE, body |-> <<>>]

\* Records fetch_plot_details can emit: a block may lack its Id line.
PlotRecords == [id : PlotIds \cup {NoId}]
\* Records fetch_newsletters emits: the id is a 16-hex digest, never empty
\* (two rows with the same url share it).
NewsRecords == [id : NewsIds]

SeqsUpTo(S, n) == UNION {[1..k -> S] : k \in 0..n}

VARIABLES
    store,                \* the bucket: key -> NoSuchKey or the saved body
    persisted_before,     \* what the key of the running pipeline held when
                          \* the invocation began
    pc,                   \* position of the running invocation
    BUCKET_NAME,          \* TRUE iff the env var is set (line 56)
    telegram_configured,  \* TELEGRAM_BOT_TOKEN and TELEGRAM_CHAT_ID set (60-61)
    all_plots, new_plots, news_now, new_news,   \* locals of lambda_handler
    scheme_i,             \* scheme rows consumed by the loop at 439
    sent,                 \* local of send_telegram_messages (line 391)
    idx,                  \* items consumed by the loop at 392
    sleeps,               \* time.sleep calls of the running batch (line 412)
    tg_log,               \* Telegram posts of the running pipeline, in order
    item_posts,           \* per-item posts of this invocation that succeeded
    extracted,            \* how the extraction of the running pipeline ended
    s3_log                \* S3 calls of the running pipeline, in order

\* A function of the module examined on its own: its argument and what it
\* returned.
VARIABLES fn_arg, fn_ret

\* Two invocations of lambda_handler that may overlap in time (no guard in
\* the code keeps them apart): the position and locals of each, whether
\* they overlapped, and the puts made on the bucket, in order.
VARIABLES invocation, overlapped, puts

vars == <<store, persisted_before, pc, BUCKET_NAME, telegram_configured,
          all_plots, new_plots, news_now, new_news, scheme_i,
          sent, idx, sleeps, tg_log, item_posts, extracted, s3_log,
          fn_arg, fn_ret, invocation, overlapped, puts>>

\* What a single invocation of lambda_handler leaves alone.
aside == <<fn_arg, fn_ret, invocation, overlapped, puts>>

NotCalled == [fn |-> "none"]
NotRun == [pc |-> "idle"]
AsideInit ==
    /\ fn_arg = NotCalled /\ fn_ret = NotCalled
    /\ invocation = NotRun /\ overlapped = FALSE /\ puts = <<>>

locals == <<all_plots, new_plots, news_now, new_news>>
batch == <<sent, idx, sleeps>>
env == <<BUCKET_NAME, telegram_configured>>

hist == <<persisted_before, tg_log, item_posts>>
trace == <<extracted, s3_log>>

Min(a, b) == IF a <= b THEN a ELSE b

\* One S3 call: get_object (321) or put_object (330), and whether it returned.
S3Call(op, key, ok) == [op |-> op, key |-> key, ok |-> ok]

\* ------------------------------------------------- extract_uit_alwar_link
\* A row of the summary table, by what lines 129-148 read of it:
\*   primary  - it has >= 2 cells and the unit-name cell starts with
\*              "uit, alwar" (line 133)
\*   fallback - its text holds both "uit" and "alwar" (line 143)
\*   href     - the first <a href> of the row, NoLink if it has none
NoLink == "nolink"
Links == {"L1", "L2"}
\* A unit-name cell starting with "uit, alwar" is part of the row's text, so
\* a primary row is a fallback row as well.
SummaryRows == {r \in [primary : BOOLEAN, fallback : BOOLEAN,
                       href : Links \cup {NoLink}] : r.primary => r.fallback}
\* The summary page: whether it holds any <table>, and the rows of the one
\* lines 106-112 pick.
Soups == {[has_table |-> FALSE, rows |-> <<>>]} \cup
         [has_table : {TRUE}, rows : SeqsUpTo(SummaryRows, MaxRows)]

FirstIndex(rows, P(_)) ==
    LET hits == {i \in DOMAIN rows : P(rows[i])}
    IN  IF hits = {} THEN 0 ELSE CHOOSE i \in hits : \A j \in hits : i <= j

\* A lookup in one pass: the first row that either rule matches.
extract_uit_alwar_link_one_pass(soup) ==
    IF ~soup.has_table
    THEN [raised |-> TRUE, why |-> "no_table", href |-> NoLink]
    ELSE LET f == FirstIndex(soup.rows,
                      LAMBDA r : r.fallback /\ r.href # NoLink)
         IN  IF f # 0
             THEN [raised |-> FALSE,
                   why |-> IF soup.rows[f].primary THEN "primary" ELSE "fallback",
                   href |-> soup.rows[f].href]
             ELSE [raised |-> TRUE, why |-> "not_found", href |-> NoLink]

\* Returns [raised |-> TRUE, ...] for the two ValueErrors (lines 111, 153).
extract_uit_alwar_link(soup) ==
    IF ~soup.has_table
    THEN [raised |-> TRUE, why |-> "no_table", href |-> NoLink]
    ELSE LET p == FirstIndex(soup.rows,
                      LAMBDA r : r.primary /\ r.href # NoLink)
             f == FirstIndex(soup.rows,
                      LAMBDA r : r.fallback /\ r.href # NoLink)
         IN  IF p # 0
             THEN [raised |-> FALSE, why |-> "primary", href |-> soup.rows[p].href]
             ELSE IF f # 0
             THEN [raised |-> FALSE, why |-> "fallback", href |-> soup.rows[f].href]
             ELSE [raised |-> TRUE, why |-> "not_found", href |-> NoLink]

\* ------------------------------------------------------------- S3 state
\* A load_json that never finds the previous state.
load_json_forgets(s3, key) == <<>>

\* load_json on a get that succeeds: a missing key (NoSuchKey / 404) and an
\* empty body both give [].
load_json(s3, key) == IF s3[key].exists THEN s3[key].body ELSE <<>>

\* A save_json that does not replace an object that exists.
save_json_keeps_existing(s3, key, payload) ==
    IF s3[key].exists THEN s3
    ELSE [s3 EXCEPT ![key] = [exists |-> TRUE, body |-> payload]]

\* A save_json whose put leaves the key as it was.
save_json_noop(s3, key, payload) == s3

\* save_json on a put that succeeds: the key holds the payload.
save_json(s3, key, payload) ==
    [s3 EXCEPT ![key] = [exists |-> TRUE, body |-> payload]]

\* ----------------------------------------------------------------- diff
HasId(x) == x.id # NoId

\* {x.get("id") for x in prev if x.get("id")}            (lines 450, 478)
PrevIds(prev) == {prev[i].id : i \in {j \in DOMAIN prev : HasId(prev[j])}}

\* A diff without the p.get("id") test.
NewItems_KeepsNoId(current, prev_ids) ==
    SelectSeq(current, LAMBDA p : p.id \notin prev_ids)

\* [p for p in current if p.get("id") and p["id"] not in prev_ids]
\*                                                       (lines 451, 479)
NewItems(current, prev_ids) ==
    SelectSeq(current, LAMBDA p : HasId(p) /\ p.id \notin prev_ids)

\* ------------------------------------------------------------- Telegram
\* One requests.post: what the log keeps of it.
\* kind is "item" (a per-item message of send_telegram_messages, pos its place
\* in the new-items sequence), "heartbeat" (459, 487), "notfound" (465) or
\* "failure" (471, 492); ok is FALSE when the post raised or was refused.
Post(src, kind, pos, id, ok) ==
    [src |-> src, kind |-> kind, pos |-> pos, id |-> id, ok |-> ok]

\* send_telegram_message (370-380): without credentials it returns at once;
\* otherwise it posts, ignores the response status, and lets whatever
\* requests.post raises reach its caller.  The outcomes:
\*   "skipped" (not configured), "returned", "raised".
SingleSendOutcomes ==
    IF telegram_configured THEN {"returned", "raised"} ELSE {"skipped"}

LogSingle(src, kind, o) ==
    IF o = "skipped" THEN tg_log
    ELSE Append(tg_log, Post(src, kind, 0, NoId, o = "returned"))

\* The items send_telegram_messages was called with, by caller.
Items(src) == IF src = OBJECT_KEY THEN new_plots ELSE new_news

\* ------------------------------------------------------------------ Init
Init ==
    /\ store = [k \in Keys |-> NoSuchKey]
    /\ persisted_before = NoSuchKey
    /\ pc = "idle"
    /\ BUCKET_NAME \in BOOLEAN
    /\ telegram_configured \in BOOLEAN
    /\ all_plots = <<>> /\ new_plots = <<>>
    /\ news_now = <<>> /\ new_news = <<>>
    /\ scheme_i = 0
    /\ sent = 0 /\ idx = 0 /\ sleeps = 0
    /\ tg_log = <<>>
    /\ item_posts = 0
    /\ extracted = "pending"
    /\ s3_log = <<>>
    /\ AsideInit

\* Where an invocation has ended: it returned at 494-502, returned the 500
\* of line 420, or an exception left it.
Ended == {"returned", "returned_500", "raised"}

\* ------------------------------------------------------- lambda_handler
\* Lines 417-429: a new invocation (the environment is read when the module
\* is loaded, lines 56-63).
Start ==
    /\ pc \in {"idle"} \cup Ended
    /\ UNCHANGED aside
    /\ BUCKET_NAME' \in BOOLEAN
    /\ telegram_configured' \in BOOLEAN
    /\ pc' = IF BUCKET_NAME' THEN "p_summary" ELSE "returned_500"
    /\ all_plots' = <<>> /\ new_plots' = <<>>
    /\ news_now' = <<>> /\ new_news' = <<>>
    /\ scheme_i' = 0
    /\ sent' = 0 /\ idx' = 0 /\ sleeps' = 0
    /\ persisted_before' = store[OBJECT_KEY]
    /\ tg_log' = <<>>
    /\ item_posts' = 0
    /\ extracted' = "pending"
    /\ s3_log' = <<>>
    /\ UNCHANGED store

\* Lines 434-436: fetch the summary page and look the unit up in it.
PlotsSummary ==
    /\ pc = "p_summary"
    /\ UNCHANGED aside
    /\ \/ /\ pc' = "p_except"                    \* _get raised
          /\ extracted' = "fetch_error"
       \/ \E soup \in Soups :
            LET r == extract_uit_alwar_link(soup)
            IN  IF r.raised
                THEN /\ pc' = "p_valueerror"     \* ValueError (111, 153)
                     /\ extracted' = r.why
                ELSE /\ pc' = "p_schemes"
                     /\ UNCHANGED extracted
    /\ UNCHANGED <<store, env, locals, scheme_i, batch, hist, s3_log>>

\* Line 437: fetch_scheme_list.
PlotsSchemeList ==
    /\ pc = "p_schemes"
    /\ UNCHANGED aside
    /\ \/ /\ pc' = "p_except"                    \* _get raised
          /\ extracted' = "fetch_error"
       \/ /\ pc' = "p_loop"
          /\ UNCHANGED extracted
    /\ UNCHANGED <<store, env, locals, scheme_i, batch, hist, s3_log>>

\* Lines 439-447: one scheme row, or the end of the rows.
PlotsSchemeLoop ==
    /\ pc = "p_loop"
    /\ UNCHANGED aside
    /\ \/ /\ scheme_i < MaxSchemes               \* a row without href (440)
          /\ scheme_i' = scheme_i + 1
          /\ UNCHANGED <<pc, all_plots, extracted>>
       \/ /\ scheme_i < MaxSchemes               \* fetch_plot_details raised
          /\ pc' = "p_except"
          /\ extracted' = "fetch_error"
          /\ scheme_i' = 0
          /\ UNCHANGED all_plots
       \/ /\ scheme_i < MaxSchemes               \* plots of this scheme (447)
          /\ \E plots \in SeqsUpTo(PlotRecords, MaxLen - Len(all_plots)) :
                all_plots' = all_plots \o plots
          /\ scheme_i' = scheme_i + 1
          /\ UNCHANGED <<pc, extracted>>
       \/ /\ pc' = "p_load"                      \* no more rows
          /\ extracted' = "ok"
          /\ scheme_i' = 0
          /\ UNCHANGED all_plots
    /\ UNCHANGED <<store, env, new_plots, news_now, new_news, batch, hist,
                   s3_log>>

\* Lines 449-451: load the previous plots and diff.
PlotsLoad ==
    /\ pc = "p_load"
    /\ UNCHANGED aside
    /\ \/ /\ pc' = "p_except"                    \* get_object raised
          /\ s3_log' = Append(s3_log, S3Call("get", OBJECT_KEY, FALSE))
          /\ UNCHANGED new_plots
       \/ /\ new_plots' = NewItems(all_plots, PrevIds(load_json(store, OBJECT_KEY)))
          /\ s3_log' = Append(s3_log, S3Call("get", OBJECT_KEY, TRUE))
          /\ pc' = "p_save"
    /\ UNCHANGED <<store, env, all_plots, news_now, new_news, scheme_i,
                   batch, hist, extracted>>

\* Line 452.
PlotsSave ==
    /\ pc = "p_save"
    /\ UNCHANGED aside
    /\ \/ /\ pc' = "p_except"                    \* put_object raised
          /\ s3_log' = Append(s3_log, S3Call("put", OBJECT_KEY, FALSE))
          /\ UNCHANGED store
       \/ /\ store' = save_json(store, OBJECT_KEY, all_plots)
          /\ s3_log' = Append(s3_log, S3Call("put", OBJECT_KEY, TRUE))
          /\ pc' = "p_notify"
    /\ UNCHANGED <<env, locals, scheme_i, batch, hist, extracted>>

\* Lines 454-459.
PlotsNotify ==
    /\ pc = "p_notify"
    /\ UNCHANGED aside
    /\ IF new_plots # <<>>
       THEN /\ pc' = IF telegram_configured THEN "p_batch" ELSE "n_fetch"
            /\ sent' = 0 /\ idx' = 0 /\ sleeps' = 0
            /\ UNCHANGED tg_log
       ELSE \E o \in SingleSendOutcomes :
            /\ tg_log' = LogSingle(OBJECT_KEY, "heartbeat", o)
            /\ pc' = IF o = "raised" THEN "p_except" ELSE "n_fetch"
            /\ UNCHANGED batch
    /\ UNCHANGED <<store, env, locals, scheme_i, persisted_before, item_posts,
                   trace>>

\* Lines 461-465: the ValueError handler of the plots pipeline.
PlotsValueError ==
    /\ pc = "p_valueerror"
    /\ UNCHANGED aside
    /\ \E o \in SingleSendOutcomes :
        /\ tg_log' = LogSingle(OBJECT_KEY, "notfound", o)
        /\ pc' = IF o = "raised" THEN "p_except" ELSE "n_fetch"
    /\ UNCHANGED <<store, env, locals, scheme_i, batch, persisted_before,
                   item_posts, trace>>

\* Lines 468-471: the Exception handler of the plots pipeline.  What
\* send_telegram_message raises here leaves lambda_handler.
PlotsExcept ==
    /\ pc = "p_except"
    /\ UNCHANGED aside
    /\ \E o \in SingleSendOutcomes :
        /\ tg_log' = LogSingle(OBJECT_KEY, "failure", o)
        /\ pc' = IF o = "raised" THEN "raised" ELSE "n_fetch"
    /\ UNCHANGED <<store, env, locals, scheme_i, batch, persisted_before,
                   item_posts, trace>>

\* --------------------------------------------- send_telegram_messages
\* Line 393: the cap test at the head of each iteration.
CapReached(n_sent) == n_sent >= TELEGRAM_MAX_MESSAGES

\* A counter that counts every post, failed ones too.
SentAfter_CountsAttempts(n_sent, ok) == n_sent + 1

\* Line 407: sent counts the posts that succeeded; a post that raised (or
\* whose status raise_for_status refused) goes to the except at 409.
SentAfter(n_sent, ok) == IF ok THEN n_sent + 1 ELSE n_sent

\* A loop without the try/except of 404-410: what a post raises reaches the
\* caller's Exception handler.
BatchStep_FailurePropagates(src, here, after) ==
    /\ pc = here
    /\ UNCHANGED aside
    /\ \/ /\ idx = Len(Items(src)) \/ CapReached(sent)
          /\ pc' = after
          /\ sent' = 0 /\ idx' = 0 /\ sleeps' = 0
          /\ UNCHANGED <<tg_log, item_posts>>
       \/ /\ idx < Len(Items(src))
          /\ ~CapReached(sent)
          /\ \E ok \in BOOLEAN :
              /\ tg_log' = Append(tg_log,
                     Post(src, "item", idx + 1, Items(src)[idx + 1].id, ok))
              /\ sent' = SentAfter(sent, ok)
              /\ item_posts' = IF ok THEN item_posts + 1 ELSE item_posts
              /\ pc' = IF ok THEN here
                       ELSE IF src = OBJECT_KEY THEN "p_except" ELSE "n_except"
          /\ sleeps' = sleeps + 1
          /\ idx' = idx + 1
    /\ UNCHANGED <<store, env, locals, scheme_i, persisted_before, trace>>

\* Lines 392-412: one iteration of the loop over items, or its end.  The
\* batch was entered at `here` with sent = 0; `after` is where the caller
\* continues once the function returns (its locals are gone then).
BatchStep(src, here, after) ==
    /\ pc = here
    /\ UNCHANGED aside
    /\ \/ /\ idx = Len(Items(src))               \* items exhausted
          /\ pc' = after
          /\ sent' = 0 /\ idx' = 0 /\ sleeps' = 0
          /\ UNCHANGED <<tg_log, item_posts>>
       \/ /\ idx < Len(Items(src))               \* cap hit: break (393-395)
          /\ CapReached(sent)
          /\ pc' = after
          /\ sent' = 0 /\ idx' = 0 /\ sleeps' = 0
          /\ UNCHANGED <<tg_log, item_posts>>
       \/ /\ idx < Len(Items(src))               \* one post (397-412)
          /\ ~CapReached(sent)
          /\ \E ok \in BOOLEAN :
              /\ tg_log' = Append(tg_log,
                     Post(src, "item", idx + 1, Items(src)[idx + 1].id, ok))
              /\ sent' = SentAfter(sent, ok)
              /\ item_posts' = IF ok THEN item_posts + 1 ELSE item_posts
          /\ sleeps' = sleeps + 1                \* line 412
          /\ idx' = idx + 1
          /\ UNCHANGED pc
    /\ UNCHANGED <<store, env, locals, scheme_i, persisted_before, trace>>

PlotsBatch == BatchStep(OBJECT_KEY, "p_batch", "n_fetch")

NewsBatch == BatchStep(OBJECT_KEY_NEWS, "n_batch", "returned")

\* ------------------------------------------------ newsletter pipeline
\* Line 476: fetch_newsletters.  A page without the table gives [] (278).
\* The newsletter pipeline begins here: the records kept of the running
\* pipeline (persisted_before, tg_log, extracted, s3_log) start over.
NewsFetch ==
    /\ pc = "n_fetch"
    /\ UNCHANGED aside
    /\ \/ /\ pc' = "n_except"                    \* _get raised
          /\ extracted' = "fetch_error"
          /\ UNCHANGED news_now
       \/ /\ news_now' = <<>>                     \* no table: return [] (278)
          /\ extracted' = "no_table"
          /\ pc' = "n_load"
       \/ /\ news_now' \in SeqsUpTo(NewsRecords, MaxLen)
          /\ extracted' = "ok"
          /\ pc' = "n_load"
    /\ persisted_before' = store[OBJECT_KEY_NEWS]
    /\ tg_log' = <<>>
    /\ s3_log' = <<>>
    /\ UNCHANGED <<store, env, all_plots, new_plots, new_news, scheme_i,
                   batch, item_posts>>

\* Lines 477-479.
NewsLoad ==
    /\ pc = "n_load"
    /\ UNCHANGED aside
    /\ \/ /\ pc' = "n_except"                    \* get_object raised
          /\ s3_log' = Append(s3_log, S3Call("get", OBJECT_KEY_NEWS, FALSE))
          /\ UNCHANGED new_news
       \/ /\ new_news' = NewItems(news_now, PrevIds(load_json(store, OBJECT_KEY_NEWS)))
          /\ s3_log' = Append(s3_log, S3Call("get", OBJECT_KEY_NEWS, TRUE))
          /\ pc' = "n_save"
    /\ UNCHANGED <<store, env, all_plots, new_plots, news_now, scheme_i,
                   batch, hist, extracted>>

\* Line 480.
NewsSave ==
    /\ pc = "n_save"
    /\ UNCHANGED aside
    /\ \/ /\ pc' = "n_except"                    \* put_object raised
          /\ s3_log' = Append(s3_log, S3Call("put", OBJECT_KEY_NEWS, FALSE))
          /\ UNCHANGED store
       \/ /\ store' = save_json(store, OBJECT_KEY_NEWS, news_now)
          /\ s3_log' = Append(s3_log, S3Call("put", OBJECT_KEY_NEWS, TRUE))
          /\ pc' = "n_notify"
    /\ UNCHANGED <<env, locals, scheme_i, batch, hist, extracted>>

\* Lines 482-487.
NewsNotify ==
    /\ pc = "n_notify"
    /\ UNCHANGED aside
    /\ IF new_news # <<>>
       THEN /\ pc' = IF telegram_configured THEN "n_batch" ELSE "returned"
            /\ sent' = 0 /\ idx' = 0 /\ sleeps' = 0
            /\ UNCHANGED tg_log
       ELSE \E o \in SingleSendOutcomes :
            /\ tg_log' = LogSingle(OBJECT_KEY_NEWS, "heartbeat", o)
            /\ pc' = IF o = "raised" THEN "n_except" ELSE "returned"
            /\ UNCHANGED batch
    /\ UNCHANGED <<store, env, locals, scheme_i, persisted_before, item_posts,
                   trace>>

\* Lines 489-492: the Exception handler of the newsletter pipeline.  What
\* send_telegram_message raises here leaves lambda_handler.
NewsExcept ==
    /\ pc = "n_except"
    /\ UNCHANGED aside
    /\ \E o \in SingleSendOutcomes :
        /\ tg_log' = LogSingle(OBJECT_KEY_NEWS, "failure", o)
        /\ pc' = IF o = "raised" THEN "raised" ELSE "returned"
    /\ UNCHANGED <<store, env, locals, scheme_i, batch, persisted_before,
                   item_posts, trace>>

\* Lines 494-502 (and 420): what the invocation returned.
result ==
    IF pc = "returned"
    THEN [statusCode |-> 200,
          total_plots |-> Len(all_plots), new_plots |-> Len(new_plots),
          total_news |-> Len(news_now), new_news |-> Len(new_news)]
    ELSE IF pc = "returned_500"
    THEN [statusCode |-> 500, body |-> "Missing BUCKET_NAME"]
    ELSE [statusCode |-> 0]

Next ==
    \/ Start
    \/ PlotsSummary \/ PlotsSchemeList \/ PlotsSchemeLoop
    \/ PlotsLoad \/ PlotsSave \/ PlotsNotify \/ PlotsBatch
    \/ PlotsValueError \/ PlotsExcept
    \/ NewsFetch \/ NewsLoad \/ NewsSave \/ NewsNotify \/ NewsBatch
    \/ NewsExcept

Spec == Init /\ [][Next]_vars

\* ======================================================================
\* Functions of the module examined on their own
\* ======================================================================
\* The variables of a single invocation, the bucket apart, and their values
\* while no invocation runs.
handler == <<persisted_before, pc, BUCKET_NAME, telegram_configured,
             all_plots, new_plots, news_now, new_news, scheme_i,
             sent, idx, sleeps, tg_log, item_posts, extracted, s3_log>>

HandlerIdle ==
    /\ persisted_before = NoSuchKey
    /\ pc = "idle"
    /\ BUCKET_NAME = TRUE
    /\ telegram_configured = TRUE
    /\ all_plots = <<>> /\ new_plots = <<>>
    /\ news_now = <<>> /\ new_news = <<>>
    /\ scheme_i = 0
    /\ sent = 0 /\ idx = 0 /\ sleeps = 0
    /\ tg_log = <<>>
    /\ item_posts = 0
    /\ extracted = "pending"
    /\ s3_log = <<>>

Returned(f) == fn_ret.fn = f

\* ------------------------------------------------- fetch_plot_details
\* An <li> of the scheme page, by what lines 212-253 read of it:
\*   kind - "blank": no text (214); "id": the text starts with "Id :" (222);
\*          "title": it starts with one of the prefixes of 229-240 (all are
\*          handled alike: plot[key] = value); "other": any other text
\*   link - it holds an <a> with a non-empty href (207-209)
LiKinds == {"blank", "id", "title", "other"}
Lis == [kind : LiKinds, link : BOOLEAN]

\* A plot dict, by where its values come from: each key holds the position
\* of the <li> that set it, Absent when the key is not in the dict.
Absent == 0
EmptyPlot == [id |-> Absent, title |-> Absent, detail_url |-> Absent]

\* Lines 200-204: a non-empty plot is appended and a new one begun.
flush(st) ==
    IF st.plot # EmptyPlot
    THEN [plot |-> EmptyPlot, result |-> Append(st.result, st.plot)]
    ELSE st

\* Lines 218-220: the link of the <li> goes to the plot that is open when
\* the <li> is read, if that plot has no detail_url yet.
capture_link(st, lis, i) ==
    IF lis[i].link /\ st.plot.detail_url = Absent
    THEN [st EXCEPT !.plot.detail_url = i]
    ELSE st

\* Lines 213-253: one iteration of the loop over the <li>s.
ParseLi(st, lis, i) ==
    IF lis[i].kind = "blank" THEN st
    ELSE LET linked == capture_link(st, lis, i)
         IN  IF lis[i].kind = "id"
             THEN [flush(linked) EXCEPT !.plot.id = i]
             ELSE IF lis[i].kind = "title"
             THEN [linked EXCEPT !.plot.title = i]
             ELSE linked

RECURSIVE ParseUpTo(_, _)
ParseUpTo(lis, n) ==
    IF n = 0 THEN [plot |-> EmptyPlot, result |-> <<>>]
    ELSE ParseLi(ParseUpTo(lis, n - 1), lis, n)

\* Lines 193-257 on a page that was fetched.
fetch_plot_details(lis) == flush(ParseUpTo(lis, Len(lis))).result

CallFetchPlotDetails ==
    /\ fn_arg.fn = "fetch_plot_details"
    /\ fn_ret = NotCalled
    /\ fn_ret' = [fn |-> "fetch_plot_details",
                  value |-> fetch_plot_details(fn_arg.lis)]
    /\ UNCHANGED <<fn_arg, store, handler, invocation, overlapped, puts>>

\* -------------------------------------------------- fetch_newsletters
\* Cell texts and urls are strings, written as sequences of characters.
\* "|" is the separator of line 301; a cell may hold it too.
Texts == {<<>>, <<"a">>, <<"|">>}
NoUrl == <<>>
Urls == {NoUrl, <<"u">>, <<"v">>}
\* A data row (five cells or more), by the cells lines 291-297 read.
NewsRows == [date : Texts, detail : Texts, venue_time : Texts, url : Urls]

\* A key that leaves the venue out.
KeySrc_DropsVenue(row) ==
    IF row.url # NoUrl THEN row.url
    ELSE row.date \o <<"|">> \o row.detail

\* Line 301: key_src = url or f"{date_txt}|{detail_txt}|{venue_txt}".
KeySrc(row) ==
    IF row.url # NoUrl THEN row.url
    ELSE row.date \o <<"|">> \o row.detail \o <<"|">> \o row.venue_time

\* Line 302: the first 16 hex digits of the SHA-256 of the key, taken as
\* free of collisions.
Digest(key_src) == [sha256_16 |-> key_src]

\* Lines 291-311: the item of one data row.
NewsItem(row) ==
    [id |-> Digest(KeySrc(row)), date |-> row.date, detail |-> row.detail,
     venue_time |-> row.venue_time, url |-> row.url]

\* Two data rows, of one page or of the pages of two runs.
CallNewsItem ==
    /\ fn_arg.fn = "fetch_newsletters"
    /\ fn_ret = NotCalled
    /\ fn_ret' = [fn |-> "fetch_newsletters",
                  a |-> NewsItem(fn_arg.a), b |-> NewsItem(fn_arg.b)]
    /\ UNCHANGED <<fn_arg, store, handler, invocation, overlapped, puts>>

\* ------------------------------------------- extract_uit_alwar_link
CallExtractLink ==
    /\ fn_arg.fn = "extract_uit_alwar_link"
    /\ fn_ret = NotCalled
    /\ fn_ret' = [fn |-> "extract_uit_alwar_link",
                  value |-> extract_uit_alwar_link(fn_arg.soup)]
    /\ UNCHANGED <<fn_arg, store, handler, invocation, overlapped, puts>>

FunctionInputs ==
    [fn : {"fetch_plot_details"}, lis : SeqsUpTo(Lis, MaxLis)]
    \cup [fn : {"fetch_newsletters"}, a : NewsRows, b : NewsRows]
    \cup [fn : {"extract_uit_alwar_link"}, soup : Soups]

FunctionInit ==
    /\ store = [k \in Keys |-> NoSuchKey]
    /\ HandlerIdle
    /\ invocation = NotRun /\ overlapped = FALSE /\ puts = <<>>
    /\ fn_arg \in FunctionInputs
    /\ fn_ret = NotCalled

FunctionNext ==
    \/ CallFetchPlotDetails
    \/ CallNewsItem
    \/ CallExtractLink

FunctionSpec == FunctionInit /\ [][FunctionNext]_vars

\* ======================================================================
\* Two invocations of lambda_handler on the same bucket
\* ======================================================================
\* Nothing in the module keeps two invocations apart (no lock, no
\* conditional put): each runs lines 449-455 on its own locals and the two
\* share only the bucket.  Each invocation is followed from the end of its
\* extraction (447) to the end of its notify step.
Invs == {1, 2}
Other(i) == 3 - i
Listings == SeqsUpTo(PlotRecords, MaxListed)

InvIdle == [pc |-> "idle", all_plots |-> <<>>, prev_ids |-> {},
            new_plots |-> <<>>, sent |-> 0, idx |-> 0, posts |-> <<>>,
            puts_seen |-> 0]
InvRunning(i) == invocation[i].pc \in {"load", "save", "notify"}

\* Lines 417-447: the invocation begins and extracts its listing.
InvStart(i) ==
    /\ invocation[i].pc = "idle"
    /\ \E listing \in Listings :
          invocation' = [invocation EXCEPT ![i].pc = "load",
                                           ![i].all_plots = listing]
    /\ overlapped' = (overlapped \/ InvRunning(Other(i)))
    /\ UNCHANGED <<store, puts, handler, fn_arg, fn_ret>>

\* Lines 449-451.
InvLoad(i) ==
    /\ invocation[i].pc = "load"
    /\ \/ invocation' = [invocation EXCEPT ![i].pc = "failed"]  \* get raised
       \/ LET prev_ids == PrevIds(load_json(store, OBJECT_KEY))
          IN  invocation' = [invocation EXCEPT
                  ![i].pc = "save",
                  ![i].prev_ids = prev_ids,
                  ![i].new_plots = NewItems(invocation[i].all_plots, prev_ids),
                  ![i].puts_seen = Len(puts)]
    /\ UNCHANGED <<store, puts, overlapped, handler, fn_arg, fn_ret>>

\* Line 452.
InvSave(i) ==
    /\ invocation[i].pc = "save"
    /\ \/ /\ invocation' = [invocation EXCEPT ![i].pc = "failed"] \* put raised
          /\ UNCHANGED <<store, puts>>
       \/ /\ store' = save_json(store, OBJECT_KEY, invocation[i].all_plots)
          /\ puts' = Append(puts, [by |-> i, payload |-> invocation[i].all_plots])
          /\ invocation' = [invocation EXCEPT ![i].pc = "notify"]
    /\ UNCHANGED <<overlapped, handler, fn_arg, fn_ret>>

\* Lines 454-459 with send_telegram_messages (392-412): one iteration of
\* the loop over the new plots, or the end of the notify step.  Without new
\* plots the heartbeat is posted, and no per-item message whatever becomes
\* of it.
InvNotify(i) ==
    /\ invocation[i].pc = "notify"
    /\ LET me == invocation[i]
       IN  IF me.idx = Len(me.new_plots) \/ CapReached(me.sent)
           THEN invocation' = [invocation EXCEPT ![i].pc = "done"]
           ELSE \E ok \in BOOLEAN :
                invocation' = [invocation EXCEPT
                    ![i].posts = Append(me.posts,
                        [id |-> me.new_plots[me.idx + 1].id, ok |-> ok]),
                    ![i].sent = SentAfter(me.sent, ok),
                    ![i].idx = me.idx + 1]
    /\ UNCHANGED <<store, puts, overlapped, handler, fn_arg, fn_ret>>

OverlapInit ==
    /\ store \in [Keys -> {NoSuchKey} \cup
                     {[exists |-> TRUE, body |-> l] : l \in Listings}]
    /\ store[OBJECT_KEY_NEWS] = NoSuchKey
    /\ HandlerIdle
    /\ fn_arg = NotCalled /\ fn_ret = NotCalled
    /\ invocation = [i \in Invs |-> InvIdle]
    /\ overlapped = FALSE
    /\ puts = <<>>

OverlapNext ==
    \E i \in Invs :
        \/ InvStart(i)
        \/ InvLoad(i)
        \/ InvSave(i)
        \/ InvNotify(i)

OverlapSpec == OverlapInit /\ [][OverlapNext]_vars

\* ======================================================================
\* Properties
\* ======================================================================
\* While pc is one of these, the records kept of the running pipeline are
\* those of the plots pipeline.
PlotsPcs == {"p_summary", "p_schemes", "p_loop", "p_load", "p_save",
             "p_notify", "p_batch", "p_valueerror", "p_except", "n_fetch"}

\* The source the records of the running pipeline belong to.  An exception
\* leaves lambda_handler only from a post of a failure notice, which is logged.
Running ==
    IF pc \in PlotsPcs THEN OBJECT_KEY
    ELSE IF pc = "raised" THEN tg_log[Len(tg_log)].src
    ELSE OBJECT_KEY_NEWS

Current(src) == IF src = OBJECT_KEY THEN all_plots ELSE news_now

Saved(payload) == [exists |-> TRUE, body |-> payload]

Logged(kind) == \E i \in DOMAIN tg_log : tg_log[i].kind = kind

ItemPosts == SelectSeq(tg_log, LAMBDA e : e.kind = "item")
Attempts == Len(ItemPosts)
Failures == Len(SelectSeq(ItemPosts, LAMBDA e : ~e.ok))
Successes == Len(SelectSeq(ItemPosts, LAMBDA e : e.ok))

GetOk == \E i \in DOMAIN s3_log : s3_log[i] = S3Call("get", Running, TRUE)
PutTried == \E i \in DOMAIN s3_log : s3_log[i].op = "put"
PutOk == \E i \in DOMAIN s3_log : s3_log[i] = S3Call("put", Running, TRUE)

\* ---------------------------------------------------------------- C1
\* C1: a per-item notification is posted for a record only if its identity
\* is absent from the state the source's key held when the invocation began
\* (what the most recent invocation that persisted wrote); so an invocation
\* whose extracted identities equal the persisted ones posts no per-item
\* notification.
C1_NotifyOnlyUnpersisted ==
    \A i \in DOMAIN tg_log :
        tg_log[i].kind = "item" =>
            /\ tg_log[i].src = Running
            /\ tg_log[i].id \notin PrevIds(persisted_before.body)
            /\ PrevIds(Current(Running)) # PrevIds(persisted_before.body)

\* A rerun: P1 was persisted and is listed again beside P2; only P2 is posted.
C1_Witness ==
    /\ persisted_before.exists
    /\ "P1" \in PrevIds(persisted_before.body)
    /\ all_plots = <<[id |-> "P1"], [id |-> "P2"]>>
    /\ tg_log = <<Post(OBJECT_KEY, "item", 1, "P2", TRUE)>>

\* ---------------------------------------------------------------- C2
\* The places of current whose record has an identity that no record of
\* previous has.
KeptIndexes(current, previous) ==
    {i \in DOMAIN current :
        /\ current[i].id # NoId
        /\ \A j \in DOMAIN previous : previous[j].id # current[i].id}

\* new is current restricted to the places idxs, in current's order.
IsSubseqAt(new, current, idxs) ==
    /\ Len(new) = Cardinality(idxs)
    /\ \A i \in idxs : new[Cardinality({j \in idxs : j < i}) + 1] = current[i]

\* C2: the new-items sequence (plots and newsletters) is exactly the
\* subsequence of current whose records have an identity that is not among
\* the identities of previous, in current's order, duplicates kept; records
\* lacking an identity count neither in previous nor in the output.
C2_NewItemsExact ==
    /\ pc \in {"p_save", "p_notify", "p_batch"} =>
          IsSubseqAt(new_plots, all_plots,
                     KeptIndexes(all_plots, persisted_before.body))
    /\ pc \in {"n_save", "n_notify", "n_batch"} =>
          IsSubseqAt(new_news, news_now,
                     KeptIndexes(news_now, persisted_before.body))

\* Previous and current both hold a record without id; P2 alone is new.
C2_Witness ==
    /\ pc = "p_save"
    /\ persisted_before.body = <<[id |-> NoId], [id |-> "P1"]>>
    /\ all_plots = <<[id |-> NoId], [id |-> "P2"]>>
    /\ new_plots = <<[id |-> "P2"]>>

\* ---------------------------------------------------------------- C3
\* C3 as stated: once extraction and the load of the previous state have
\* succeeded and line 452 / 480 has been executed, the key holds the full
\* current sequence; and no notification is posted before that line.
C3_AlwaysOverwritten ==
    /\ (GetOk /\ PutTried) => store[Running] = Saved(Current(Running))
    /\ (GetOk /\ tg_log # <<>>) => PutTried

\* C3, amended: once extraction and the load have succeeded, the put of the
\* full current sequence is attempted before any post for the source, also
\* when there are no new items; if the put returns, the key holds exactly
\* that sequence whatever the posts do afterwards; if the put raises, the
\* key keeps what it held.
C3_PersistBeforeNotify ==
    /\ (GetOk /\ tg_log # <<>>) => PutTried
    /\ PutOk => store[Running] = Saved(Current(Running))
    /\ (PutTried /\ ~PutOk) => store[Running] = persisted_before

\* Nothing new, the put done, and the heartbeat post raised.
C3_Witness ==
    /\ pc = "p_except"
    /\ all_plots = <<[id |-> "P1"]>>
    /\ new_plots = <<>>
    /\ store[OBJECT_KEY] = Saved(all_plots)
    /\ tg_log = <<Post(OBJECT_KEY, "heartbeat", 0, NoId, FALSE)>>

\* ---------------------------------------------------------------- C4
\* C4: whatever fails in the plots pipeline (its failure notice included),
\* the newsletter pipeline is started: no invocation ends inside the plots
\* pipeline.
C4_NewsPipelineAlwaysRuns ==
    pc = "raised" => Running = OBJECT_KEY_NEWS

\* ---------------------------------------------------------------- C5
\* C5: lambda_handler never raises; an invocation that has ended returned a
\* structured result (the counts with status 200, or the 500 of line 420).
C5_AlwaysStructuredResult ==
    /\ pc # "raised"
    /\ pc \in Ended => result.statusCode \in {200, 500}

\* ---------------------------------------------------------------- C6
\* The function is invoked on a schedule, run after run, and every step of
\* a run terminates (each request has a timeout): a run in progress goes on
\* and a run that ended is followed by the next one.
FairSpec == Spec /\ WF_vars(Next)

\* Plot x is in the new-items sequence computed at line 451.
ComputedNew(x) ==
    /\ pc = "p_save"
    /\ \E i \in DOMAIN new_plots : new_plots[i].id = x

\* The listing extracted by the run contains plot x.
StaysListed(x) ==
    pc = "p_load" => \E i \in DOMAIN all_plots : all_plots[i].id = x

\* A post of the message of plot x succeeded.
Delivered(x) ==
    \E i \in DOMAIN tg_log :
        /\ tg_log[i].kind = "item" /\ tg_log[i].src = OBJECT_KEY
        /\ tg_log[i].id = x /\ tg_log[i].ok

\* The transport is configured and accepts every post, and no step of the
\* run fails.
TransportAccepts ==
    /\ telegram_configured
    /\ \A i \in DOMAIN tg_log : tg_log[i].ok
    /\ pc \notin {"p_except", "p_valueerror", "n_except", "raised",
                  "returned_500"}

\* C6: delivery is at-least-once.  Under repeated runs in which plot x
\* stays listed and the transport eventually accepts every post, a plot
\* computed as new in some run (its post failed, or the cap skipped it, or
\* no transport was configured) is eventually posted successfully, in that
\* run or a later one.
C6_AtLeastOnce ==
    \A x \in PlotIds :
        ([]StaysListed(x) /\ <>[]TransportAccepts)
            => [](ComputedNew(x) => <>Delivered(x))

\* ---------------------------------------------------------------- C7
\* send_telegram_messages is about to return: the items are exhausted or
\* the cap test of line 393 holds.
BatchReturning ==
    /\ pc \in {"p_batch", "n_batch"}
    /\ \/ idx = Len(Items(Running))
       \/ sent >= TELEGRAM_MAX_MESSAGES

\* C7 as stated: with n items and cap c, exactly min(n, c) posts are
\* attempted, whether they succeed or fail.
C7_ExactlyMinAttempts ==
    BatchReturning =>
        Attempts = Min(Len(Items(Running)), TELEGRAM_MAX_MESSAGES)

\* C7, amended: with a transport configured, n items and cap c, posts are
\* attempted until c of them have succeeded: at most min(n, c) succeed, a
\* failed post does not count toward the cap, so min(n, c + f) posts are
\* attempted, f of them failing, and the other n - min(n, c + f) items are
\* skipped (when every post succeeds: exactly min(n, c) attempts).
C7_CapCountsSuccesses ==
    /\ pc \in {"p_batch", "n_batch"} => telegram_configured
    /\ BatchReturning =>
        /\ Successes <= Min(Len(Items(Running)), TELEGRAM_MAX_MESSAGES)
        /\ Attempts = Min(Len(Items(Running)), TELEGRAM_MAX_MESSAGES + Failures)
        /\ Failures = 0 =>
              Attempts = Min(Len(Items(Running)), TELEGRAM_MAX_MESSAGES)
        /\ Len(Items(Running)) - idx =
              Len(Items(Running)) -
                 Min(Len(Items(Running)), TELEGRAM_MAX_MESSAGES + Failures)

\* Two new plots, the first post fails, the second succeeds: two attempts.
C7_Witness ==
    /\ BatchReturning
    /\ Len(new_plots) = TELEGRAM_MAX_MESSAGES + 1
    /\ Attempts = TELEGRAM_MAX_MESSAGES + 1
    /\ ~tg_log[1].ok
    /\ Successes = TELEGRAM_MAX_MESSAGES

\* ---------------------------------------------------------------- C8
\* C8: a failed post never aborts the batch.  The posts of a batch are those
\* of items 1, 2, ... in the order of the new-items sequence, each once; the
\* batch ends only when the items are exhausted or the cap is reached, so
\* every item within the cap is attempted; and no post of an item raises
\* into the caller's handlers: the call returns normally.
C8_FailedSendNeverAborts ==
    /\ \A k \in DOMAIN ItemPosts :
          /\ ItemPosts[k].pos = k
          /\ ItemPosts[k].src = Running
          /\ k <= Len(Items(Running))
          /\ ItemPosts[k].id = Items(Running)[k].id
    /\ pc \in {"p_batch", "n_batch"} => Attempts = idx
    /\ BatchReturning =>
          /\ Attempts >= Min(Len(Items(Running)), TELEGRAM_MAX_MESSAGES)
          /\ Attempts = Len(Items(Running)) \/ Successes >= TELEGRAM_MAX_MESSAGES
    /\ pc \in {"p_except", "p_valueerror", "n_except", "raised"} =>
          ItemPosts = <<>>

\* Two new plots, both posts fail, the batch ends having tried both.
C8_Witness ==
    /\ BatchReturning
    /\ pc = "p_batch"
    /\ new_plots = <<[id |-> "P2"], [id |-> "P1"]>>
    /\ tg_log = <<Post(OBJECT_KEY, "item", 1, "P2", FALSE),
                  Post(OBJECT_KEY, "item", 2, "P1", FALSE)>>

\* ---------------------------------------------------------------- C9
\* The notify step of the running pipeline is over.
NotifyOver == PutOk /\ pc \notin {"p_notify", "p_batch", "n_notify", "n_batch"}

\* C9: with a transport configured, per source: extraction succeeded and
\* nothing new: the heartbeat is posted and no failure notice; extraction
\* failed: a failure notice is posted; new items and the persist succeeded:
\* neither heartbeat nor failure notice.  So a failure notice is posted only
\* for a source whose pipeline failed before persisting.
C9_NoticeMatchesOutcome ==
    telegram_configured =>
        /\ (NotifyOver /\ Items(Running) = <<>>) =>
              Logged("heartbeat") /\ ~Logged("failure")
        /\ (NotifyOver /\ Items(Running) # <<>>) =>
              ~Logged("heartbeat") /\ ~Logged("failure")
        /\ (extracted \in {"fetch_error", "no_table", "not_found"}
              /\ Running = OBJECT_KEY /\ pc \in {"n_fetch", "raised"}) =>
              Logged("failure") \/ Logged("notfound")
        /\ (extracted = "fetch_error" /\ Running = OBJECT_KEY_NEWS
              /\ pc \in {"returned", "raised"}) => Logged("failure")
        /\ Logged("failure") => ~PutOk

C11_NewsNoTableKeepsState ==
    (Running = OBJECT_KEY_NEWS /\ extracted = "no_table") =>
        /\ ~PutOk
        /\ store[OBJECT_KEY_NEWS] = persisted_before
        /\ ~Logged("heartbeat")
        /\ (telegram_configured /\ pc \in Ended) => Logged("failure")

\* --------------------------------------------------------------- C12
\* C12: in the plots pipeline a summary page without any table is a hard
\* failure, answered with the failure notice of the source, and never with
\* the notice of the soft outcome "unit not found".
C12_NoTableIsNotNotFound ==
    (Running = OBJECT_KEY /\ extracted = "no_table") =>
        /\ ~Logged("notfound")
        /\ (telegram_configured /\ pc \in {"n_fetch", "raised"})
               => Logged("failure")

\* --------------------------------------------------------------- C13
\* C13: every record fetch_plot_details emits has an id; a record whose
\* first populated field is not the Id is dropped, never emitted in part.
C13_EveryEmittedPlotHasId ==
    Returned("fetch_plot_details") =>
        \A k \in DOMAIN fn_ret.value : fn_ret.value[k].id # Absent

\* --------------------------------------------------------------- C14
\* The positions of the "Id :" entries, and the entries of the record that
\* the Id entry at position i opens: from i up to the next Id entry.
IdEntries(lis) == {i \in DOMAIN lis : lis[i].kind = "id"}
OwnEntries(lis, i) ==
    {j \in DOMAIN lis : j >= i /\ \A m \in IdEntries(lis) : m > i => j < m}
FirstLink(lis, own) ==
    LET linked == {j \in own : lis[j].kind # "blank" /\ lis[j].link}
    IN  IF linked = {} THEN Absent
        ELSE CHOOSE j \in linked : \A m \in linked : j <= m

\* C14: for entries that begin with an Id entry, fetch_plot_details emits
\* one record per Id entry, in order; every field of a record, detail_url
\* included, comes from the entries between the record's own Id entry and
\* the next one; and detail_url is the first link among those entries, the
\* Id entry included.
C14_RecordsKeepTheirOwnFields ==
    (Returned("fetch_plot_details") /\ fn_arg.lis # <<>>
        /\ fn_arg.lis[1].kind = "id") =>
        LET lis == fn_arg.lis
            out == fn_ret.value
        IN  /\ Len(out) = Cardinality(IdEntries(lis))
            /\ \A k \in DOMAIN out :
                 /\ out[k].id \in IdEntries(lis)
                 /\ Cardinality({m \in IdEntries(lis) : m <= out[k].id}) = k
                 /\ out[k].title \in OwnEntries(lis, out[k].id) \cup {Absent}
                 /\ out[k].detail_url = FirstLink(lis, OwnEntries(lis, out[k].id))

\* --------------------------------------------------------------- C15
\* The rows differ in exactly one of date, detail and venue_time.
DifferInOneCell(a, b) ==
    Cardinality({f \in {"date", "detail", "venue_time"} : a[f] # b[f]}) = 1
HasBar(t) == \E i \in DOMAIN t : t[i] = "|"
NoBars(row) ==
    ~HasBar(row.date) /\ ~HasBar(row.detail) /\ ~HasBar(row.venue_time)

\* C15 as stated: the same row gets the same identity, and two rows that
\* differ in any of date, detail, venue_time or url get different ones.
C15_IdentityOfContent ==
    Returned("fetch_newsletters") =>
        (fn_ret.a.id = fn_ret.b.id <=> fn_arg.a = fn_arg.b)

\* C15, amended: identity is a function of the row alone, the same row gets
\* the same identity; it is taken from the url when the row has one, so two
\* rows with a url get the same identity exactly when their urls are equal,
\* whatever their date, detail and venue_time; two rows without url get
\* different identities when they differ in exactly one of date, detail and
\* venue_time, or differ at all and hold no "|" in these cells.
C15_IdentityOfUrlOrCells ==
    Returned("fetch_newsletters") =>
        LET a == fn_arg.a
            b == fn_arg.b
            same == fn_ret.a.id = fn_ret.b.id
        IN  /\ a = b => same
            /\ (a.url # NoUrl /\ b.url # NoUrl) => (same <=> a.url = b.url)
            /\ (a.url = NoUrl /\ b.url = NoUrl /\ DifferInOneCell(a, b))
                   => ~same
            /\ (a.url = NoUrl /\ b.url = NoUrl /\ NoBars(a) /\ NoBars(b)
                   /\ a # b) => ~same

\* Two rows with the same url and different dates get the same identity.
C15_Witness ==
    /\ Returned("fetch_newsletters")
    /\ fn_arg.a.url = <<"u">> /\ fn_arg.b.url = <<"u">>
    /\ fn_arg.a.date # fn_arg.b.date
    /\ fn_ret.a.id = fn_ret.b.id

\* --------------------------------------------------------------- C19
\* The rows of the table a rule matches and that hold a link.
PrimaryRows(rows) ==
    {i \in DOMAIN rows : rows[i].primary /\ rows[i].href # NoLink}
FallbackRows(rows) ==
    {i \in DOMAIN rows : rows[i].fallback /\ rows[i].href # NoLink}
IsFirstOf(i, S) == i \in S /\ \A j \in S : i <= j

\* C19: on a page with a table, extract_uit_alwar_link returns the link of
\* the first row the primary rule matches and that has a link, whenever
\* there is one, even after an earlier row that only the fallback rule
\* matches; otherwise the link of the first such row of the fallback rule;
\* and it reports not-found only when neither rule has such a row.
C19_PrimaryBeforeFallback ==
    (Returned("extract_uit_alwar_link") /\ fn_arg.soup.has_table) =>
        LET rows == fn_arg.soup.rows
            r == fn_ret.value
        IN  /\ PrimaryRows(rows) # {} =>
                  /\ ~r.raised
                  /\ \E i \in DOMAIN rows :
                        IsFirstOf(i, PrimaryRows(rows)) /\ r.href = rows[i].href
            /\ (PrimaryRows(rows) = {} /\ FallbackRows(rows) # {}) =>
                  /\ ~r.raised
                  /\ \E i \in DOMAIN rows :
                        IsFirstOf(i, FallbackRows(rows)) /\ r.href = rows[i].href
            /\ r.raised <=> (PrimaryRows(rows) = {} /\ FallbackRows(rows) = {})
            /\ r.raised => r.why = "not_found"

\* A row of the fallback rule only, with a link, before the row of the unit.
C19_Witness ==
    /\ Returned("extract_uit_alwar_link")
    /\ fn_arg.soup.has_table
    /\ fn_arg.soup.rows =
          <<[primary |-> FALSE, fallback |-> TRUE, href |-> "L1"],
            [primary |-> TRUE, fallback |-> TRUE, href |-> "L2"]>>
    /\ fn_ret.value.href = "L2"

\* --------------------------------------------------------------- C16
\* C16: when the key of a source does not exist, load_json returns the empty
\* sequence and the whole extracted set of the source is new: the new count
\* the run returns equals the total count, for plots and for newsletters.
C16_AbsentStateAllNew ==
    (GetOk /\ ~persisted_before.exists) =>
        /\ load_json([store EXCEPT ![Running] = persisted_before], Running) = <<>>
        /\ Len(Items(Running)) = Len(Current(Running))

\* --------------------------------------------------------------- C17
\* C17: the cap bounds the per-item messages of one run of lambda_handler,
\* both sources together: no more than TELEGRAM_MAX_MESSAGES are sent.
C17_CapBoundsTheRun == item_posts <= TELEGRAM_MAX_MESSAGES

\* --------------------------------------------------------------- C18
Gets == SelectSeq(s3_log, LAMBDA c : c.op = "get")
Puts == SelectSeq(s3_log, LAMBDA c : c.op = "put")
ExtractionFailed == extracted \in {"fetch_error", "no_table", "not_found"}
LoadFailed == \E i \in DOMAIN s3_log : s3_log[i] = S3Call("get", Running, FALSE)

\* The protocol of C18 without its last clause: a pipeline reads its key at
\* most once, writes it at most once and only after a read that succeeded,
\* and touches no other key.
AccessProtocol ==
    /\ Len(Gets) <= 1
    /\ Len(Puts) <= 1
    /\ \A i \in DOMAIN s3_log :
          /\ s3_log[i].key = Running
          /\ s3_log[i].op = "put" =>
                \E j \in 1..(i - 1) : s3_log[j] = S3Call("get", Running, TRUE)

\* C18: in one run each source's key is read at most once and written at
\* most once, the write only after a successful read of the same key, and a
\* pipeline never touches the key of the other source; when the extraction
\* of a source fails (hard or soft) or its load fails, the key is not
\* written and keeps the state persisted before.
C18_StoreAccessProtocol ==
    /\ AccessProtocol
    /\ (ExtractionFailed \/ LoadFailed) =>
          /\ Puts = <<>>
          /\ store[Running] = persisted_before

\* --------------------------------------------------------------- C20
\* Invocation i posted the message of the plot with this id.
Notified(i, id) ==
    \E k \in DOMAIN invocation[i].posts :
        invocation[i].posts[k].id = id /\ invocation[i].posts[k].ok
Loaded(i) == invocation[i].pc \in {"save", "notify", "done"}
BothLoadedBeforeAnyPut ==
    \A i \in Invs : Loaded(i) /\ invocation[i].puts_seen = 0
ListedBy(i) == PrevIds(invocation[i].all_plots)
NewFor(i) == PrevIds(invocation[i].new_plots)

\* C20: nothing guards the store.  When both invocations load the previous
\* state before either persists, both compute the same listed plots as new
\* (so both notify them), and after the puts the key holds what the last put
\* wrote; when the invocations do not overlap, no plot is notified by both.
C20_NoGuardLastWriteWins ==
    /\ BothLoadedBeforeAnyPut =>
          /\ invocation[1].prev_ids = invocation[2].prev_ids
          /\ \A id \in ListedBy(1) \cap ListedBy(2) :
                (id \in NewFor(1) <=> id \in NewFor(2))
                /\ (id \notin invocation[1].prev_ids => id \in NewFor(1))
    /\ puts # <<>> => store[OBJECT_KEY] = Saved(puts[Len(puts)].payload)
    /\ ~overlapped =>
          \A id \in PlotIds : ~(Notified(1, id) /\ Notified(2, id))

\* Both invocations loaded before either put, both posted the message of
\* P1, and the key holds the listing of the second put, not of the first.
C20_Witness ==
    /\ BothLoadedBeforeAnyPut
    /\ overlapped
    /\ Notified(1, "P1") /\ Notified(2, "P1")
    /\ Len(puts) = 2
    /\ puts[1].payload # puts[2].payload
    /\ store[OBJECT_KEY] = Saved(puts[2].payload)

\* --------------------------------------------------------------- C21
\* C21: in send_telegram_messages the delay falls only between consecutive
\* send attempts: no delay before the first attempt, and a batch that ends
\* after k attempts has made exactly k - 1 delays, none after the last one.
C21_DelaysOnlyBetweenAttempts ==
    /\ (pc \in {"p_batch", "n_batch"} /\ Attempts = 0) => sleeps = 0
    /\ (BatchReturning /\ Attempts > 0) => sleeps = Attempts - 1
=============================================================================
